---- MODULE Spec2Model ----
(***************************************************************************)
(* A model of downloading_pdf.py: download_pdf (one HTTP GET streamed to a *)
(* file), download_pdfs_from_list (the sequential batch with its delay)    *)
(* and the retry loop of the __main__ block.                               *)
(*                                                                         *)
(* Strings are sequences of one-character strings, so that split, strip,   *)
(* endswith, basename, unquote and urlparse are computed character by      *)
(* character.  The HTTP transport, the file system and the clock are the   *)
(* environment: their answers are nondeterministic choices.                *)
(***************************************************************************)
EXTENDS Integers, Sequences, FiniteSets

\* ------------------------------------------------------------------ bounds

\* longest URL list handed to download_pdfs_from_list / to the entry point
MaxUrls == 2

\* ------------------------------------------------------- program constants

\* delay=1, the default of download_pdfs_from_list
DefaultDelay == 1
\* 400: first status raise_for_status() turns into an HTTPError
ErrStatusLo == 400
\* 600: first status above the ones raise_for_status() rejects
ErrStatusHi == 600
\* chunk_size=8192
ChunkSize == 8192

\* ---------------------------------------------------------------- strings

\* Python's None for the filename argument (no real string is this token)
None == <<"None">>

\* Python truthiness of an optional string: None and '' are falsy
Falsy(s) == s = None \/ s = <<>>

PDF_EXT == <<".", "p", "d", "f">>

FILENAME_EQ == <<"f", "i", "l", "e", "n", "a", "m", "e", "=">>

DOCUMENT_ == <<"d", "o", "c", "u", "m", "e", "n", "t", "_">>

\* 'downloaded_pdfs', the default output_dir
DEFAULT_DIR == <<"d", "o", "w", "n", "l", "o", "a", "d", "e", "d", "_", "p", "d", "f", "s">>

\* s[i:] with a 1-based i
From(s, i) == SubSeq(s, i, Len(s))

\* s.startswith(p)
StartsWith(s, p) == Len(p) <= Len(s) /\ SubSeq(s, 1, Len(p)) = p

\* s.endswith(suf)
EndsWith(s, suf) == Len(suf) <= Len(s) /\ SubSeq(s, Len(s) - Len(suf) + 1, Len(s)) = suf

\* s.find(sub), 1-based, 0 when sub does not occur
Find(s, sub) ==
    LET hits == {i \in 1..(Len(s) - Len(sub) + 1) : SubSeq(s, i, i + Len(sub) - 1) = sub}
    IN IF hits = {} THEN 0 ELSE CHOOSE i \in hits : \A j \in hits : i <= j

\* sub in s
Contains(s, sub) == Find(s, sub) # 0

\* s.rfind(c) for a single character, 1-based, 0 when c does not occur
RFindChar(s, c) ==
    LET hits == {i \in 1..Len(s) : s[i] = c}
    IN IF hits = {} THEN 0 ELSE CHOOSE i \in hits : \A j \in hits : j <= i

\* s.split(sep)[1]: the piece between the first and the second occurrence of
\* sep (to the end when there is no second one); only used when sep occurs
SplitSecond(s, sep) ==
    LET rest == From(s, Find(s, sep) + Len(sep))
        nxt == Find(rest, sep)
    IN IF nxt = 0 THEN rest ELSE SubSeq(rest, 1, nxt - 1)

RECURSIVE LStrip(_, _)
\* s.lstrip(chars)
LStrip(s, chars) ==
    IF s # <<>> /\ Head(s) \in chars THEN LStrip(Tail(s), chars) ELSE s

RECURSIVE RStrip(_, _)
\* s.rstrip(chars)
RStrip(s, chars) ==
    IF s # <<>> /\ s[Len(s)] \in chars THEN RStrip(SubSeq(s, 1, Len(s) - 1), chars) ELSE s

\* s.strip(chars)
Strip(s, chars) == RStrip(LStrip(s, chars), chars)

\* the whitespace str.strip() removes (the characters of it the inputs use)
Whitespace == {" ", "\t", "\n"}

\* url.strip()
StripWs(s) == Strip(s, Whitespace)

\* os.path.basename(p): what follows the last '/'
Basename(p) == From(p, RFindChar(p, "/") + 1)

\* the %XX escapes unquote() decodes (the ones the inputs use)
HexPairs == {<<"2", "0">>, <<"2", "E">>, <<"2", "F">>}

\* the character a %XX escape stands for
HexChar(pair) ==
    IF pair = <<"2", "0">> THEN " " ELSE IF pair = <<"2", "E">> THEN "." ELSE "/"

RECURSIVE Unquote(_)
\* urllib.parse.unquote: every %XX escape replaced by its character, a '%'
\* that starts no escape kept as it is
Unquote(s) ==
    IF s = <<>> THEN <<>>
    ELSE IF s[1] = "%" /\ Len(s) >= 3 /\ SubSeq(s, 2, 3) \in HexPairs
         THEN <<HexChar(SubSeq(s, 2, 3))>> \o Unquote(From(s, 4))
         ELSE <<s[1]>> \o Unquote(Tail(s))

\* characters a URL scheme is made of (the ones the inputs use)
SchemeChars == {"h", "t", "p", "s", "f"}

\* urlsplit: the URL without its scheme ("scheme:" is cut only when what
\* precedes the first ':' is a well-formed scheme)
AfterScheme(url) ==
    LET i == Find(url, <<":">>)
    IN IF i > 1 /\ \A k \in 1..(i - 1) : url[k] \in SchemeChars
       THEN From(url, i + 1) ELSE url

\* urlsplit: the URL without its "//netloc", which ends at the first of / ? #
AfterNetloc(u) ==
    IF StartsWith(u, <<"/", "/">>)
    THEN LET ends == {i \in 3..Len(u) : u[i] \in {"/", "?", "#"}}
         IN IF ends = {} THEN <<>>
            ELSE From(u, CHOOSE i \in ends : \A j \in ends : i <= j)
    ELSE u

\* s up to (not including) the first occurrence of the character c
Before(s, c) ==
    LET i == Find(s, <<c>>) IN IF i = 0 THEN s ELSE SubSeq(s, 1, i - 1)

\* urlparse's _splitparams: the ";params" of the last path segment cut off
SplitParams(p) ==
    LET slash == RFindChar(p, "/")
        tail == From(p, slash + 1)
        semi == Find(tail, <<";">>)
    IN IF semi = 0 THEN p ELSE SubSeq(p, 1, slash + semi - 1)

\* urlparse(url).path: scheme, netloc, fragment, query and params removed
UrlPath(url) ==
    SplitParams(Before(Before(AfterNetloc(AfterScheme(url)), "#"), "?"))

\* the decimal digit d as a character
Digit(d) == CASE d = 0 -> "0" [] d = 1 -> "1" [] d = 2 -> "2" [] d = 3 -> "3"
              [] d = 4 -> "4" [] d = 5 -> "5" [] d = 6 -> "6" [] d = 7 -> "7"
              [] d = 8 -> "8" [] OTHER -> "9"

RECURSIVE IntToStr(_)
\* str(n) for n >= 0, as the f-string formats int(time.time())
IntToStr(n) ==
    IF n < 10 THEN <<Digit(n)>> ELSE IntToStr(n \div 10) \o <<Digit(n % 10)>>

\* os.path.join(a, b) on POSIX: an absolute b replaces a; otherwise the two
\* are joined by one '/', none added after an empty a or one ending in '/'
PathJoin(a, b) ==
    IF StartsWith(b, <<"/">>) THEN b
    ELSE IF a = <<>> \/ EndsWith(a, <<"/">>) THEN a \o b
    ELSE a \o <<"/">> \o b

\* ------------------------------------------------------------ environment

HTTP_X == <<"h", "t", "t", "p", ":", "/", "/", "x">>

\* "http://x/a.pdf"
U_A == HTTP_X \o <<"/", "a">> \o PDF_EXT

\* "http://x/b": a last segment without the suffix
U_B == HTTP_X \o <<"/", "b">>

\* "http://x": an empty path
U_ROOT == HTTP_X

\* "http://x/d/": a path that ends in '/'
U_DIR == HTTP_X \o <<"/", "d", "/">>

\* "http://x/a.pdf?v#f": a query and a fragment
U_QUERY == U_A \o <<"?", "v", "#", "f">>

\* "http://x/a%20b.pdf": a percent-encoded segment
U_ENC == HTTP_X \o <<"/", "a", "%", "2", "0", "b">> \o PDF_EXT

\* "http://x/a.pdf;v": params on the last segment
U_PARAMS == U_A \o <<";", "v">>

\* " http://x/a.pdf\n": the URL with whitespace around it
U_WS == <<" ">> \o U_A \o <<"\n">>

\* URLs download_pdf is called with directly
FetchUrls == {U_A, U_B, U_ROOT, U_DIR, U_QUERY, U_ENC, U_PARAMS}

\* URLs the lists handed to download_pdfs_from_list are made of
BatchUrls == {U_A, U_B, U_WS}

\* URLs the entry point's pdf_urls is made of
MainUrls == {U_B, U_WS}

\* explicit filename arguments: None, '', 'r', 'r.pdf'
Filenames == {None, <<>>, <<"r">>, <<"r">> \o PDF_EXT}

\* output directories: the default and 'o'
Dirs == {DEFAULT_DIR, <<"o">>}

\* delay arguments of a direct call of download_pdfs_from_list
Delays == {-1, 0, 2}

\* values int(time.time()) takes
Timestamps == {7, 1762300800}

ATTACHMENT == <<"a", "t", "t", "a", "c", "h", "m", "e", "n", "t", ";", " ">>

REPORT_2020_PDF == <<"r", "e", "p", "o", "r", "t", "_", "2", "0", "2", "0">> \o PDF_EXT

\* attachment; filename="report_2020.pdf"
CD_REPORT == ATTACHMENT \o FILENAME_EQ \o <<"\"">> \o REPORT_2020_PDF \o <<"\"">>

\* attachment; filename=n  (a name without the suffix)
CD_NOEXT == ATTACHMENT \o FILENAME_EQ \o <<"n">>

\* filename=""  (an empty name)
CD_EMPTY == FILENAME_EQ \o <<"\"", "\"">>

\* inline  (no filename parameter)
CD_INLINE == <<"i", "n", "l", "i", "n", "e">>

\* filename="n.pdf"; size=1  (a parameter after the name)
CD_TRAILING == FILENAME_EQ \o <<"\"", "n">> \o PDF_EXT \o <<"\"", ";", " ", "s", "i", "z", "e", "=", "1">>

\* Content-Disposition header values; None is a response without the header
Dispositions == {None, CD_REPORT, CD_NOEXT, CD_EMPTY, CD_INLINE, CD_TRAILING}

APPLICATION_PDF == <<"a", "p", "p", "l", "i", "c", "a", "t", "i", "o", "n", "/">> \o <<"p", "d", "f">>

\* Application/PDF
CT_UPPER == <<"A", "p", "p", "l", "i", "c", "a", "t", "i", "o", "n", "/">> \o <<"P", "D", "F">>

\* text/html
CT_HTML == <<"t", "e", "x", "t", "/", "h", "t", "m", "l">>

\* the response before requests.get has returned one
NoResp == [status |-> 0, ctype |-> None, cdisp |-> None]

\* responses requests.get returns: a 200 with each Content-Disposition, a 200
\* with each content type, and one response of every other status class
Responses ==
    {[status |-> 200, ctype |-> APPLICATION_PDF, cdisp |-> cd] : cd \in Dispositions}
    \cup {[status |-> 200, ctype |-> ct, cdisp |-> None] : ct \in {None, CT_UPPER, CT_HTML}}
    \cup {[status |-> st, ctype |-> CT_HTML, cdisp |-> None] : st \in {101, 304, 404, 503}}

\* exceptions requests.get raises for a transport failure
TransportErrors == {"ConnectionError", "Timeout"}

\* exceptions a broken body stream raises out of iter_content
StreamErrors == {"ChunkedEncodingError"}

\* the direct base class of each exception class
BaseOf(c) ==
    CASE c \in {"HTTPError", "ConnectionError", "Timeout", "ChunkedEncodingError"}
           -> "RequestException"
      [] c = "RequestException" -> "OSError"
      [] c = "OSError" -> "Exception"
      [] c = "Exception" -> "BaseException"
      [] OTHER -> "object"

RECURSIVE IsInstance(_, _)
\* isinstance(an exception of class c, cls)
IsInstance(c, cls) ==
    IF c = cls THEN TRUE ELSE IF c = "object" THEN FALSE ELSE IsInstance(BaseOf(c), cls)

\* all sequences over S of length at most n
SeqsUpTo(S, n) == UNION {[1..k -> S] : k \in 0..n}

\* ------------------------------------------------------------------ state

VARIABLES
    mode,          \* what was started: "main", "batch" (one call of
                   \* download_pdfs_from_list) or "fetch" (one call of download_pdf)
    mPc,           \* __main__: "start", "while", "done", or "off" outside it
    pdf_urls,      \* __main__: the URL list
    m_successful,  \* __main__: successful
    m_failed,      \* __main__: failed
    bPc,           \* download_pdfs_from_list: "idle", "loop", "fetch", "sleep", "returned"
    bUrls,         \* its argument urls
    bDir,          \* its argument output_dir
    bDelay,        \* its argument delay
    bi,            \* the position of the for loop in urls
    successful,    \* its local successful
    failed,        \* its local failed
    fPc,           \* download_pdf: "idle", "mkdir", "get", "status", "resolve",
                   \* "open", "stream", "returned", "raised"
    fUrl,          \* its argument url
    fDir,          \* its argument output_dir
    filename,      \* its argument and local filename
    response,      \* its local response
    exc,           \* the class of the exception in flight, or "none"
    ret,           \* its return value: "none", "True" or "False"
    filepath,      \* its local filepath
    warned,        \* the content-type warning was printed
    created,       \* open(filepath, 'wb') has created the file in this call
    wrote,         \* f.write has written a chunk in this call
    fileOpen,      \* the file object f is open
    respOpen,      \* a response acquired by requests.get holds its connection
    attempts,      \* history: the URLs download_pdf was called with in this batch call
    sleeps,        \* history: the durations time.sleep was called with in this batch call
    occ,           \* history: for each element of bUrls, its position in pdf_urls
    failedOcc,     \* history: the same for failed
    m_failedOcc,   \* history: the same for m_failed
    succCount      \* history: successful fetches per position of pdf_urls

mvars == <<mode, mPc, pdf_urls, m_successful, m_failed>>

bvars == <<bPc, bUrls, bDir, bDelay, bi, successful, failed>>

flocals == <<fUrl, fDir, filename, response, exc, ret, filepath, warned, created, wrote>>

resources == <<fileOpen, respOpen>>

hvars == <<attempts, sleeps, occ, failedOcc, m_failedOcc, succCount>>

vars == <<mvars, bvars, fPc, flocals, resources, hvars>>

\* -------------------------------------------------------------- download_pdf

\* the state of a call of download_pdf(url, output_dir, fname) at its first line
FetchCalled(url, dir, fname) ==
    /\ fPc' = "mkdir"
    /\ fUrl' = url
    /\ fDir' = dir
    /\ filename' = fname
    /\ response' = NoResp
    /\ exc' = "none"
    /\ ret' = "none"
    /\ filepath' = <<>>
    /\ warned' = FALSE
    /\ created' = FALSE
    /\ wrote' = FALSE

\* the locals of download_pdf once its frame is gone
LocalsGone ==
    /\ fUrl' = <<>>
    /\ fDir' = <<>>
    /\ filename' = None
    /\ response' = NoResp
    /\ filepath' = <<>>
    /\ warned' = FALSE
    /\ created' = FALSE
    /\ wrote' = FALSE

\* Handler with the second except clause left out
HandlerRequestOnly(e) ==
    IF IsInstance(e, "RequestException") THEN "False" ELSE "propagate"

\* the except clauses: RequestException and Exception both return False, any
\* other exception leaves download_pdf
Handler(e) ==
    IF IsInstance(e, "RequestException") THEN "False"
    ELSE IF IsInstance(e, "Exception") THEN "False"
    ELSE "propagate"

\* an exception of class e is raised inside the try block: the except
\* clause that matches it returns False, and an exception none of them
\* matches leaves download_pdf
Raise(e) ==
    /\ IF Handler(e) = "propagate"
       THEN fPc' = "raised" /\ ret' = "none" /\ exc' = e
       ELSE fPc' = "returned" /\ ret' = Handler(e) /\ exc' = "none"
    /\ LocalsGone

\* Path(output_dir).mkdir(parents=True, exist_ok=True): succeeds or raises OSError
F_Mkdir(ok) ==
    /\ fPc = "mkdir"
    /\ IF ok
       THEN fPc' = "get" /\ UNCHANGED flocals
       ELSE Raise("OSError")
    /\ UNCHANGED <<mvars, bvars, resources, hvars>>

\* requests.get(...) raises a transport error
F_GetFail(e) ==
    /\ fPc = "get"
    /\ Raise(e)
    /\ UNCHANGED <<mvars, bvars, resources, hvars>>

\* requests.get(..., stream=True) returns a response whose body is still to
\* be read: the response holds its connection
F_GetResp(r) ==
    /\ fPc = "get"
    /\ response' = r
    /\ respOpen' = TRUE
    /\ fPc' = "status"
    /\ UNCHANGED <<mvars, bvars, fUrl, fDir, filename, exc, ret, filepath,
                   warned, created, wrote, fileOpen, hvars>>

\* Response.raise_for_status() raises HTTPError for a 4xx or 5xx status only
RaisesForStatus(status) == ErrStatusLo <= status /\ status < ErrStatusHi

\* response.raise_for_status(); nothing closes the response it rejects
F_RaiseForStatus ==
    /\ fPc = "status"
    /\ IF RaisesForStatus(response.status)
       THEN Raise("HTTPError")
       ELSE fPc' = "resolve" /\ UNCHANGED flocals
    /\ UNCHANGED <<mvars, bvars, resources, hvars>>

\* str.lower() on the letters the content types use
LowerChar(c) ==
    CASE c = "A" -> "a" [] c = "P" -> "p" [] c = "D" -> "d" [] c = "F" -> "f" [] OTHER -> c

\* response.headers.get('content-type', '').lower()
ContentType(r) ==
    IF r.ctype = None THEN <<>> ELSE [i \in 1..Len(r.ctype) |-> LowerChar(r.ctype[i])]

\* 'application/pdf' not in content_type
NotPdfType(r) == ~Contains(ContentType(r), APPLICATION_PDF)

\* HeaderFilename with the Content-Disposition block left out
HeaderFilenameIgnored(r, fname) == fname

\* the filename after the Content-Disposition block: the header's filename=
\* value with the quotes around it stripped, or fname when the header or
\* its filename= is missing
HeaderFilename(r, fname) ==
    IF r.cdisp # None /\ Contains(r.cdisp, FILENAME_EQ)
    THEN Strip(SplitSecond(r.cdisp, FILENAME_EQ), {"\""})
    ELSE fname

\* the filename after the URL block: the percent-decoded basename of the
\* URL's path when there is still no filename
UrlFilename(url, fname) ==
    IF Falsy(fname) THEN Unquote(Basename(UrlPath(url))) ELSE fname

\* f"document_{int(time.time())}.pdf"
Synthesized(ts) == DOCUMENT_ \o IntToStr(ts) \o PDF_EXT

\* the filename after the last block of "if not filename": a derived name
\* that is empty or does not end with .pdf is replaced by the synthesized one
DerivedFilename(fname, ts) ==
    IF Falsy(fname) \/ ~EndsWith(fname, PDF_EXT) THEN Synthesized(ts) ELSE fname

\* EnsurePdf with the final suffix check left out
EnsurePdfSkipped(fname) == fname

\* "Ensure filename ends with .pdf"
EnsurePdf(fname) == IF ~EndsWith(fname, PDF_EXT) THEN fname \o PDF_EXT ELSE fname

\* the filename download_pdf saves under, from "if not filename" to filename += '.pdf'
ResolveFilename(fname, r, url, ts) ==
    EnsurePdf(IF Falsy(fname)
              THEN DerivedFilename(UrlFilename(url, HeaderFilename(r, fname)), ts)
              ELSE fname)

\* the URLs download_pdf is called with: the direct ones and the stripped
\* elements of the lists
CalledUrls == FetchUrls \cup {StripWs(u) : u \in BatchUrls}

\* ResolveFilename tabulated over the inputs, each entry computed once
ResolvedNames ==
    [fname \in Filenames, r \in Responses, url \in CalledUrls, ts \in Timestamps |->
        ResolveFilename(fname, r, url, ts)]

\* NotPdfType tabulated over the responses
NotPdfTypes == [r \in Responses |-> NotPdfType(r)]

\* the content-type check, the filename resolution and os.path.join
F_Resolve(ts) ==
    /\ fPc = "resolve"
    /\ warned' = NotPdfTypes[response]
    /\ filename' = ResolvedNames[filename, response, fUrl, ts]
    /\ filepath' = PathJoin(fDir, ResolvedNames[filename, response, fUrl, ts])
    /\ fPc' = "open"
    /\ UNCHANGED <<mvars, bvars, fUrl, fDir, response, exc, ret, created, wrote,
                   resources, hvars>>

\* open(filepath, 'wb'): creates the file and enters the with block, or
\* raises OSError; nothing closes the response then
F_Open(ok) ==
    /\ fPc = "open"
    /\ IF ok
       THEN /\ fileOpen' = TRUE
            /\ created' = TRUE
            /\ fPc' = "stream"
            /\ UNCHANGED <<fUrl, fDir, filename, response, exc, ret, filepath, warned, wrote>>
       ELSE /\ fileOpen' = fileOpen
            /\ Raise("OSError")
    /\ UNCHANGED <<mvars, bvars, respOpen, hvars>>

\* one turn of the chunk loop: iter_content yields a chunk of n bytes, which
\* is written when it is not empty
F_Chunk(n) ==
    /\ fPc = "stream"
    /\ wrote' = (wrote \/ n # 0)
    /\ UNCHANGED <<mvars, bvars, fPc, fUrl, fDir, filename, response, exc, ret,
                   filepath, warned, created, resources, hvars>>

\* f.write(chunk) raises OSError: the with block closes the file on the way
\* out; nothing closes the response, whose body is not read to its end
F_WriteFail ==
    /\ fPc = "stream"
    /\ Raise("OSError")
    /\ fileOpen' = FALSE
    /\ UNCHANGED <<mvars, bvars, respOpen, hvars>>

\* the body stream breaks: iter_content raises, urllib3 having closed the
\* connection of the broken response; the with block closes the file
F_StreamBreak(e) ==
    /\ fPc = "stream"
    /\ Raise(e)
    /\ fileOpen' = FALSE
    /\ respOpen' = FALSE
    /\ UNCHANGED <<mvars, bvars, hvars>>

\* iter_content is exhausted: the connection is released with the last byte,
\* the with block closes the file, download_pdf returns True
F_StreamEnd ==
    /\ fPc = "stream"
    /\ fileOpen' = FALSE
    /\ respOpen' = FALSE
    /\ ret' = "True"
    /\ exc' = exc
    /\ fPc' = "returned"
    /\ LocalsGone
    /\ UNCHANGED <<mvars, bvars, hvars>>

\* the runtime finalizes a response object no frame refers to any more: the
\* code never closes the response, so a response a call has left open is
\* closed at a moment the runtime chooses
Finalize ==
    /\ respOpen
    /\ fPc \in {"idle", "returned", "raised", "mkdir", "get"}
    /\ respOpen' = FALSE
    /\ UNCHANGED <<mvars, bvars, fPc, flocals, fileOpen, hvars>>

\* ---------------------------------------------------- download_pdfs_from_list

\* the positions 1..n of a list of n URLs
Positions(urls) == [i \in 1..Len(urls) |-> i]

\* the state of a call of download_pdfs_from_list(urls, dir, delay) at its
\* for loop; occs names the position in pdf_urls of each element of urls
BatchCalled(urls, dir, delay, occs) ==
    /\ bPc' = "loop"
    /\ bUrls' = urls
    /\ bDir' = dir
    /\ bDelay' = delay
    /\ bi' = 1
    /\ successful' = <<>>
    /\ failed' = <<>>
    /\ attempts' = <<>>
    /\ sleeps' = <<>>
    /\ occ' = occs
    /\ failedOcc' = <<>>

\* for url in urls: success = download_pdf(url.strip(), output_dir)
B_Iter ==
    /\ bPc = "loop"
    /\ bi <= Len(bUrls)
    /\ FetchCalled(StripWs(bUrls[bi]), bDir, None)
    /\ attempts' = Append(attempts, StripWs(bUrls[bi]))
    /\ bPc' = "fetch"
    /\ UNCHANGED <<mvars, bUrls, bDir, bDelay, bi, successful, failed, resources,
                   sleeps, occ, failedOcc, m_failedOcc, succCount>>

\* if success: successful.append(url)
AppendSuccessful(s, url, success) == IF success THEN Append(s, url) ELSE s

\* AppendFailed with the else branch left out
AppendFailedDropped(f, url, success) == f

\* AppendFailed inserting at the front instead of appending
AppendFailedFront(f, url, success) == IF success THEN f ELSE <<url>> \o f

\* AppendFailed with the else lost: every URL is appended to failed
AppendFailedAlways(f, url, success) == Append(f, url)

\* else: failed.append(url)
AppendFailed(f, url, success) == IF success THEN f ELSE Append(f, url)

\* download_pdf has returned: the URL goes to successful or to failed
B_Record ==
    /\ bPc = "fetch"
    /\ fPc = "returned"
    /\ successful' = AppendSuccessful(successful, bUrls[bi], ret = "True")
    /\ LET f == AppendFailed(failed, bUrls[bi], ret = "True")
       IN /\ failed' = f
          /\ failedOcc' = IF Len(f) > Len(failed) THEN Append(failedOcc, occ[bi])
                          ELSE failedOcc
    /\ succCount' = IF ret = "True"
                    THEN [succCount EXCEPT ![occ[bi]] = IF @ < 2 THEN @ + 1 ELSE @]
                    ELSE succCount
    /\ fPc' = "idle"
    /\ ret' = "none"
    /\ UNCHANGED <<fUrl, fDir, filename, response, exc, filepath, warned, created, wrote>>
    /\ bPc' = "sleep"
    /\ UNCHANGED <<mvars, bUrls, bDir, bDelay, bi, resources, attempts, sleeps,
                   occ, m_failedOcc>>

\* ShouldSleep with >= in place of >
ShouldSleepNonNegative(delay) == delay >= 0

\* if delay > 0
ShouldSleep(delay) == delay > 0

\* if delay > 0: time.sleep(delay); then the for loop moves on
B_Sleep ==
    /\ bPc = "sleep"
    /\ sleeps' = IF ShouldSleep(bDelay) THEN Append(sleeps, bDelay) ELSE sleeps
    /\ bi' = bi + 1
    /\ bPc' = "loop"
    /\ UNCHANGED <<mvars, bUrls, bDir, bDelay, successful, failed, fPc, flocals,
                   resources, attempts, occ, failedOcc, m_failedOcc, succCount>>

\* the for loop is exhausted: return successful, failed
B_Return ==
    /\ bPc = "loop"
    /\ bi > Len(bUrls)
    /\ bPc' = "returned"
    /\ UNCHANGED <<mvars, bUrls, bDir, bDelay, bi, successful, failed, fPc, flocals,
                   resources, hvars>>

\* ------------------------------------------------------------------ __main__

\* successful, failed = download_pdfs_from_list(pdf_urls): the call
M_Start ==
    /\ mode = "main"
    /\ mPc = "start"
    /\ BatchCalled(pdf_urls, DEFAULT_DIR, DefaultDelay, Positions(pdf_urls))
    /\ mPc' = "call"
    /\ UNCHANGED <<mode, pdf_urls, m_successful, m_failed, fPc, flocals, resources,
                   m_failedOcc, succCount>>

\* successful, failed = download_pdfs_from_list(...): the assignment of the
\* returned pair
M_Assign ==
    /\ mPc = "call"
    /\ bPc = "returned"
    /\ m_successful' = successful
    /\ m_failed' = failed
    /\ m_failedOcc' = failedOcc
    /\ mPc' = "while"
    /\ bPc' = "idle"
    /\ UNCHANGED <<mode, pdf_urls, bUrls, bDir, bDelay, bi, successful, failed, fPc,
                   flocals, resources, attempts, sleeps, occ, failedOcc, succCount>>

\* LoopCondition that stops one failure early
LoopConditionOffByOne(f) == Len(f) > 1

\* while len(failed) != 0
LoopCondition(f) == Len(f) # 0

\* the list the retry round is run on: download_pdfs_from_list(failed)
RetryUrls(all, f) == f

\* the while test, and in the loop the call download_pdfs_from_list(failed)
M_While ==
    /\ mPc = "while"
    /\ IF LoopCondition(m_failed)
       THEN /\ BatchCalled(RetryUrls(pdf_urls, m_failed), DEFAULT_DIR, DefaultDelay,
                           m_failedOcc)
            /\ mPc' = "call"
       ELSE /\ mPc' = "done"
            /\ UNCHANGED <<bvars, attempts, sleeps, occ, failedOcc>>
    /\ UNCHANGED <<mode, pdf_urls, m_successful, m_failed, fPc, flocals, resources,
                   m_failedOcc, succCount>>

\* ------------------------------------------------------------ specification

\* no call of download_pdf is in progress
FetchIdle ==
    /\ fPc = "idle"
    /\ fUrl = <<>>
    /\ fDir = <<>>
    /\ filename = None
    /\ response = NoResp
    /\ exc = "none"
    /\ ret = "none"
    /\ filepath = <<>>
    /\ warned = FALSE
    /\ created = FALSE
    /\ wrote = FALSE

\* no call of download_pdfs_from_list is in progress
BatchIdle ==
    /\ bPc = "idle"
    /\ bUrls = <<>>
    /\ bDir = <<>>
    /\ bDelay = 0
    /\ bi = 1
    /\ successful = <<>>
    /\ failed = <<>>
    /\ attempts = <<>>
    /\ sleeps = <<>>
    /\ occ = <<>>
    /\ failedOcc = <<>>

\* the entry point is not running
MainOff ==
    /\ mPc = "off"
    /\ pdf_urls = <<>>
    /\ m_successful = <<>>
    /\ m_failed = <<>>
    /\ m_failedOcc = <<>>

\* the script is run: __main__ is about to call download_pdfs_from_list(pdf_urls)
InitMain ==
    /\ mode = "main"
    /\ mPc = "start"
    /\ pdf_urls \in SeqsUpTo(MainUrls, MaxUrls)
    /\ m_successful = <<>>
    /\ m_failed = <<>>
    /\ m_failedOcc = <<>>
    /\ succCount = [i \in 1..Len(pdf_urls) |-> 0]
    /\ BatchIdle
    /\ FetchIdle

\* download_pdfs_from_list(urls, output_dir, delay) is called by itself
InitBatch ==
    /\ mode = "batch"
    /\ MainOff
    /\ bPc = "loop"
    /\ bUrls \in SeqsUpTo(BatchUrls, MaxUrls)
    /\ bDir \in Dirs
    /\ bDelay \in Delays \cup {DefaultDelay}
    /\ bi = 1
    /\ successful = <<>>
    /\ failed = <<>>
    /\ attempts = <<>>
    /\ sleeps = <<>>
    /\ occ = Positions(bUrls)
    /\ failedOcc = <<>>
    /\ succCount = [i \in 1..Len(bUrls) |-> 0]
    /\ FetchIdle

\* download_pdf(url, output_dir, filename) is called by itself
InitFetch ==
    /\ mode = "fetch"
    /\ MainOff
    /\ BatchIdle
    /\ succCount = <<>>
    /\ fPc = "mkdir"
    /\ fUrl \in FetchUrls
    /\ fDir \in Dirs
    /\ filename \in Filenames
    /\ response = NoResp
    /\ exc = "none"
    /\ ret = "none"
    /\ filepath = <<>>
    /\ warned = FALSE
    /\ created = FALSE
    /\ wrote = FALSE

Init ==
    /\ fileOpen = FALSE
    /\ respOpen = FALSE
    /\ (InitMain \/ InitBatch \/ InitFetch)

\* requests.get returns a response raise_for_status() accepts
F_GetAccepted == \E r \in Responses : ~RaisesForStatus(r.status) /\ F_GetResp(r)

Next ==
    \/ \E ok \in BOOLEAN : F_Mkdir(ok)
    \/ \E e \in TransportErrors : F_GetFail(e)
    \/ \E r \in Responses : F_GetResp(r)
    \/ F_RaiseForStatus
    \/ \E ts \in Timestamps : F_Resolve(ts)
    \/ \E ok \in BOOLEAN : F_Open(ok)
    \/ \E n \in {0, ChunkSize} : F_Chunk(n)
    \/ F_WriteFail
    \/ \E e \in StreamErrors : F_StreamBreak(e)
    \/ F_StreamEnd
    \/ Finalize
    \/ B_Iter
    \/ B_Record
    \/ B_Sleep
    \/ B_Return
    \/ M_Start
    \/ M_Assign
    \/ M_While

Spec == Init /\ [][Next]_vars

\* The script run as a program: only the entry point starts anything.
MainInit == fileOpen = FALSE /\ respOpen = FALSE /\ InitMain

\* The program always takes its next step, and the environment is fair to
\* it: a directory creation, a GET, an open and a body stream that are tried
\* again and again do not fail every time.
FairSpec ==
    /\ MainInit
    /\ [][Next]_vars
    /\ WF_vars(Next)
    /\ SF_vars(F_Mkdir(TRUE))
    /\ SF_vars(F_GetAccepted)
    /\ SF_vars(F_Open(TRUE))
    /\ SF_vars(F_StreamEnd)

\* ------------------------------------------------------------------ claims

\* the elements of a sequence
Range(q) == {q[i] : i \in DOMAIN q}

\* how many times u occurs in q
Count(q, u) == Cardinality({i \in DOMAIN q : q[i] = u})

RECURSIVE IsSubseq(_, _)
\* a is a subsequence of b: b with some elements left out, the order kept
IsSubseq(a, b) ==
    IF a = <<>> THEN TRUE
    ELSE IF b = <<>> THEN FALSE
    ELSE IF Head(a) = Head(b) THEN IsSubseq(Tail(a), Tail(b))
    ELSE IsSubseq(a, Tail(b))

\* a status in 200..299
Is2xx(status) == 200 <= status /\ status <= 299

\* f is document_<digits>.pdf
IsDocumentName(f) ==
    /\ StartsWith(f, DOCUMENT_)
    /\ EndsWith(f, PDF_EXT)
    /\ Len(f) > Len(DOCUMENT_) + Len(PDF_EXT)
    /\ \A i \in (Len(DOCUMENT_) + 1)..(Len(f) - Len(PDF_EXT)) :
          f[i] \in {"0", "1", "2", "3", "4", "5", "6", "7", "8", "9"}

\* the filename the Content-Disposition header of each response gives: the
\* value of its filename= without the quotes, empty when there is none
HeaderName ==
    [r \in Responses |->
        IF r.cdisp # None /\ Contains(r.cdisp, FILENAME_EQ)
        THEN Strip(SplitSecond(r.cdisp, FILENAME_EQ), {"\""})
        ELSE <<>>]

\* the percent-decoded last path segment of each URL
UrlSegment == [u \in CalledUrls |-> Unquote(Basename(UrlPath(u)))]

\* the step of download_pdf that resolves the filename
ResolveStep == fPc = "resolve" /\ fPc' = "open"

\* the first of explicit argument, header filename and URL segment that is
\* not empty; empty when all three are
FirstNonEmpty ==
    IF ~Falsy(filename) THEN filename
    ELSE IF HeaderName[response] # <<>> THEN HeaderName[response]
    ELSE UrlSegment[fUrl]

\* C1: download_pdf never lets an exception out, whatever the environment
\* does (mkdir, GET, status, open, write, stream): a call that is over has
\* returned True or False, and only a call that is over has a return value.
C1_NeverRaises ==
    /\ fPc # "raised"
    /\ exc = "none"
    /\ (fPc = "returned" <=> ret \in {"True", "False"})
    /\ (fPc # "returned" => ret = "none")

\* C1 witness: a direct call has returned False after a failure that came
\* once the response was there (error status, open or write failure)
C1_Witness == mode = "fetch" /\ fPc = "returned" /\ ret = "False" /\ respOpen

\* C2 as stated: when download_pdfs_from_list returns, the two sequences have
\* len(urls) elements together and every element of urls is in exactly one
\* of them, never in both.
C2_ExactlyOneList ==
    bPc = "returned" =>
        /\ Len(successful) + Len(failed) = Len(bUrls)
        /\ \A u \in Range(bUrls) : (u \in Range(successful)) # (u \in Range(failed))

\* C2 amended: when download_pdfs_from_list returns, the two sequences have
\* len(urls) elements together and every occurrence of a URL in urls is in
\* exactly one of them: a URL occurs in successful and failed together as
\* many times as in urls, and a URL that occurs once is in exactly one.
C2_OccurrencePartition ==
    bPc = "returned" =>
        /\ Len(successful) + Len(failed) = Len(bUrls)
        /\ \A u \in Range(bUrls) \cup Range(successful) \cup Range(failed) :
              Count(successful, u) + Count(failed, u) = Count(bUrls, u)
        /\ \A u \in Range(bUrls) :
              Count(bUrls, u) = 1 => (u \in Range(successful)) # (u \in Range(failed))

\* C2 witness: a list with the same URL twice has returned with that URL in
\* both sequences
C2_Witness ==
    /\ bPc = "returned"
    /\ bUrls = <<U_A, U_A>>
    /\ successful = <<U_A>>
    /\ failed = <<U_A>>

\* C3 as stated: the saved name is taken from the first source that yields a
\* non-empty name: explicit argument, header filename, URL segment, and the
\* synthesized document_<timestamp>.pdf only when all three are empty.
C3_FirstNonEmptySource ==
    [][ResolveStep =>
        IF FirstNonEmpty # <<>>
        THEN filename' \in {FirstNonEmpty, FirstNonEmpty \o PDF_EXT}
        ELSE IsDocumentName(filename')]_vars

\* C3 amended: an explicit non-empty argument gives the name; otherwise the
\* header filename, or the URL segment when the header gives none, is the
\* name provided it ends in .pdf, and a derived name that is empty or does
\* not end in .pdf is replaced by document_<timestamp>.pdf.
C3_ResolutionOrder ==
    [][ResolveStep =>
        IF ~Falsy(filename)
        THEN filename' \in {filename, filename \o PDF_EXT}
        ELSE IF FirstNonEmpty # <<>> /\ EndsWith(FirstNonEmpty, PDF_EXT)
        THEN filename' = FirstNonEmpty
        ELSE IsDocumentName(filename')]_vars

\* C3 witness: without an explicit filename the header's report_2020.pdf is
\* the name although the URL path ends in another name
C3_Witness ==
    /\ mode = "fetch"
    /\ fPc = "open"
    /\ response.cdisp = CD_REPORT
    /\ fUrl = U_A
    /\ filename = REPORT_2020_PDF

\* C4 as stated: whichever source the name comes from (explicit argument,
\* header, URL segment), a name without .pdf is kept with .pdf appended and
\* a name with .pdf is saved unchanged.
C4_SuffixAnySource ==
    [][ResolveStep /\ FirstNonEmpty # <<>> =>
        filename' = IF EndsWith(FirstNonEmpty, PDF_EXT) THEN FirstNonEmpty
                    ELSE FirstNonEmpty \o PDF_EXT]_vars

\* C4 amended: an explicit name without .pdf is kept with .pdf appended; a
\* name with .pdf, from any source, is saved unchanged; a header or URL name
\* without .pdf is not kept: document_<timestamp>.pdf replaces it.  The
\* saved name always ends in .pdf.
C4_SuffixExplicitOnly ==
    [][ResolveStep =>
        /\ EndsWith(filename', PDF_EXT)
        /\ (FirstNonEmpty # <<>> /\ EndsWith(FirstNonEmpty, PDF_EXT) =>
               filename' = FirstNonEmpty)
        /\ (~Falsy(filename) /\ ~EndsWith(filename, PDF_EXT) =>
               filename' = filename \o PDF_EXT)
        /\ (Falsy(filename) /\ FirstNonEmpty # <<>> /\ ~EndsWith(FirstNonEmpty, PDF_EXT) =>
               IsDocumentName(filename'))]_vars

\* C4 witness: the explicit name 'r' is about to be opened as 'r.pdf'
C4_Witness ==
    /\ mode = "fetch"
    /\ fPc = "open"
    /\ filename = <<"r">> \o PDF_EXT
    /\ response.cdisp = CD_REPORT

\* C5: a response whose status is outside 200..299 never has a file created
\* for it and never ends in a True return.
C5_Non2xxFails ==
    [][(response # NoResp /\ ~Is2xx(response.status)) =>
          (~created' /\ ret' # "True")]_vars

\* every position of the initial list has had a successful fetch
AllSucceeded == \A o \in DOMAIN succCount : succCount[o] >= 1

\* the entry point calls download_pdfs_from_list in this step
MainCalls == mPc # "call" /\ mPc' = "call"

\* C6: the entry point runs the first batch on pdf_urls and every later one
\* on exactly the failure sequence of the round before; it is done only with
\* an empty failure sequence, so never while some URL has not succeeded once;
\* and when the transport is fair to every URL it does get done.
C6_RetryUntilEmpty ==
    /\ [][MainCalls => bUrls' = IF mPc = "start" THEN pdf_urls ELSE m_failed]_vars
    /\ [](mPc = "done" => m_failed = <<>> /\ AllSucceeded)
    /\ ((mPc = "start") ~> (mPc = "done"))

\* C6 witness: the loop has ended after a retry round on a shorter list
C6_Witness ==
    /\ mPc = "done"
    /\ pdf_urls = <<U_B, U_WS>>
    /\ Len(bUrls) = 1

\* C7: whenever a call of download_pdf starts, no file object and no
\* response of an earlier call is still open.
C7_ReleasedBeforeNextFetch == fPc = "mkdir" => (~fileOpen /\ ~respOpen)

\* C8: the URLs are fetched one at a time in input order, each stripped, and
\* successful and failed are subsequences of urls.
C8_InputOrder ==
    bPc \in {"loop", "fetch", "sleep", "returned"} =>
        /\ Len(attempts) <= Len(bUrls)
        /\ \A k \in 1..Len(attempts) : attempts[k] = StripWs(bUrls[k])
        /\ Len(attempts) = (IF bPc = "loop" \/ bPc = "returned" THEN bi - 1 ELSE bi)
        /\ (bPc = "fetch" <=> fPc # "idle")
        /\ (bPc = "returned" => Len(attempts) = Len(bUrls))
        /\ IsSubseq(successful, bUrls)
        /\ IsSubseq(failed, bUrls)

\* C8 witness: [a.pdf, b] with a.pdf downloaded and b failed has returned
\* successful = [a.pdf] and failed = [b]
C8_Witness ==
    /\ bPc = "returned"
    /\ bUrls = <<U_A, U_B>>
    /\ successful = <<U_A>>
    /\ failed = <<U_B>>

\* C9: with delay > 0 a sleep of delay seconds follows every attempt, the
\* last one too, and precedes the next fetch; with delay <= 0 nothing
\* sleeps; every round of the entry point runs with the default delay.
C9_SleepAfterEveryAttempt ==
    bPc \in {"loop", "fetch", "sleep", "returned"} =>
        /\ sleeps = IF bDelay > 0 THEN [k \in 1..(bi - 1) |-> bDelay] ELSE <<>>
        /\ (bPc = "fetch" => Len(attempts) = bi)
        /\ (bPc = "returned" => bi = Len(bUrls) + 1)
        /\ (mode = "main" => bDelay = DefaultDelay)

\* C9 witness: a call with delay 2 on two URLs has returned after two sleeps
C9_Witness ==
    /\ bPc = "returned"
    /\ bDelay = 2
    /\ Len(bUrls) = 2
    /\ sleeps = <<2, 2>>

\* C10: over the rounds of the entry point the failure sequence is a
\* subsequence of the round's input, a position of pdf_urls that was fetched
\* successfully is never fetched again, and at the end every position has
\* had exactly one successful fetch.
C10_RoundsShrink ==
    mode = "main" =>
        /\ IsSubseq(failed, bUrls)
        /\ IsSubseq(failedOcc, occ)
        /\ IsSubseq(bUrls, pdf_urls)
        /\ IsSubseq(m_failed, pdf_urls)
        /\ (bPc \in {"loop", "fetch", "sleep", "returned"} =>
               \A k \in 1..Len(bUrls) : bUrls[k] = pdf_urls[occ[k]])
        /\ (bPc = "fetch" => succCount[occ[bi]] = 0)
        /\ (\A o \in DOMAIN succCount : succCount[o] <= 1)
        /\ (mPc = "done" => \A o \in DOMAIN succCount : succCount[o] = 1)

\* C10 witness: a retry round fetches the one URL that failed while the
\* other, downloaded in the first round, is left alone
C10_Witness ==
    /\ mode = "main"
    /\ mPc = "call"
    /\ bPc = "fetch"
    /\ Len(pdf_urls) = 2
    /\ Len(bUrls) = 1
    /\ \E o \in DOMAIN succCount : succCount[o] = 1

====
